---- MODULE Spec2Model ----
(***************************************************************************)
(* EyeRadar exercise backend: the adaptive difficulty engine               *)
(* (backend/app/services/adaptive_difficulty.py) and the session lifecycle *)
(* that calls it (backend/app/routers/exercises.py, backend/app/database.py)*)
(*                                                                         *)
(* Accuracies are fractions in the code.  Here an accuracy is an integer   *)
(* number of ten-thousandths (Scale), and every comparison of a quotient   *)
(* with a threshold is done by cross-multiplication, so a mean or a        *)
(* weighted mean is compared exactly.                                      *)
(***************************************************************************)
EXTENDS Integers, Sequences, FiniteSets, TLC

VARIABLES
    \* one call of calculate_difficulty_level: its arguments, its position
    \* and its return value
    age, deficit_severity, current_level, recent_accuracies, fp, pc, new_level,
    \* the database: the students and exercise_sessions tables
    students, sessions,
    \* the clock behind datetime.utcnow() and the index of date.today() in Calendar
    clock, today,
    \* the status code of the last response
    response,
    \* one call of calculate_session_parameters or get_recommended_deficit_areas:
    \* the arguments, the returned value and the position of the call
    difficulty_level, params, area_deficits, session_history, recommendations, advisor,
    \* the complete_session calls in progress: per caller its position and
    \* the rows and values it holds between two database statements
    calls,
    \* the invocations of calculate_difficulty_level in progress, statement by
    \* statement, the list object they were passed, and the rounding errors of
    \* the floating-point computations on that list
    invocations, history_arg, rounding,
    \* the shop: the shop_items, user_purchases and points_ledger tables and
    \* the purchase_item calls in progress, statement by statement
    shop_items, user_purchases, points_ledger, buyers,
    \* the adventure_maps table and the number of ids handed out so far
    adventure_maps, next_adventure

engine_vars == <<age, deficit_severity, current_level, recent_accuracies, fp, pc, new_level>>

system_vars == <<students, sessions, clock, today, response>>

advisor_vars ==
    <<difficulty_level, params, area_deficits, session_history, recommendations, advisor>>

conc_vars == <<calls>>

pure_vars == <<invocations, history_arg, rounding>>

shop_vars == <<shop_items, user_purchases, points_ledger, buyers>>

adventure_vars == <<adventure_maps, next_adventure>>

store_vars == <<shop_vars, adventure_vars>>

aux_vars == <<advisor_vars, conc_vars, pure_vars, store_vars>>

vars == <<engine_vars, system_vars, aux_vars>>

----------------------------------------------------------------------------
\* Units and bounds

Scale == 10000

MaxHist == 5
MaxLong == 9

\* accuracy samples the engine is called with (ten-thousandths)
Grid == {3000, 5000, 7000, 9000, 9500}
CoarseGrid == {0, 5000, 10000}

Ages == 4..18
Severities == 1..5
Levels == 1..10

\* (age, severity) pairs used with a non-empty history
WarmProfiles == {<<4, 5>>, <<18, 1>>}
LongProfiles == {<<9, 3>>}
LongLevels == {1, 2, 5, 9, 10}

----------------------------------------------------------------------------
\* adaptive_difficulty.py: configuration

INCREASE_THRESHOLD == 8500
MAINTAIN_MIN == 6000
MIN_SESSIONS_BEFORE_INCREASE == 3

Max(a, b) == IF a >= b THEN a ELSE b
Min(a, b) == IF a <= b THEN a ELSE b

RECURSIVE SumSeq(_)
SumSeq(s) == IF s = <<>> THEN 0 ELSE s[1] + SumSeq(Tail(s))

\* int(x) of the rational n/d, d > 0: truncation toward zero
Trunc(n, d) == IF n >= 0 THEN n \div d ELSE -((-n) \div d)

(***************************************************************************)
(* Floating point.  The code computes the weighted accuracy and the trend  *)
(* difference in binary floating point, so a value that is exactly on a    *)
(* threshold as a fraction may come out one unit in the last place below   *)
(* or above it ((0.6*0.5 + 0.6*1.0)/1.5 is 0.5999999999999999, and         *)
(* 0.4 - 0.3 is 0.10000000000000003).  Away from a threshold the rounding  *)
(* error (below 1e-15) cannot change a comparison: two distinct values of  *)
(* the model differ by more than 1e-6.  A computed value is therefore its  *)
(* exact fraction together with the sign of its rounding error, -1, 0 or 1,*)
(* and that sign is an input of the call (rnd.w for the weighted accuracy, *)
(* rnd.d for the trend difference), any of the three on a tie.             *)
(***************************************************************************)
Signs == {-1, 0, 1}

None == [num |-> 0, den |-> 0, err |-> 0]

\* variant: the upper bound is not applied
_clamp_unbounded_above(value, min_val, max_val) == Max(min_val, value)

_clamp(value, min_val, max_val) == Max(min_val, Min(max_val, value))

\* variant: the age tiers compared with < in place of <=
get_base_level_strict(a) ==
    IF a < 5 THEN 1
    ELSE IF a < 7 THEN 2
    ELSE IF a < 9 THEN 3
    ELSE IF a < 11 THEN 4
    ELSE IF a < 13 THEN 5
    ELSE 6

get_base_level_for_age(a) ==
    IF a <= 5 THEN 1
    ELSE IF a <= 7 THEN 2
    ELSE IF a <= 9 THEN 3
    ELSE IF a <= 11 THEN 4
    ELSE IF a <= 13 THEN 5
    ELSE 6

\* the adjustment in halves: 1.0, 0.5, 0.0, -0.5, -1.0 are 2, 1, 0, -1, -2
get_severity_adjustment(severity) ==
    CASE severity = 1 -> 2
      [] severity = 2 -> 1
      [] severity = 3 -> 0
      [] severity = 4 -> -1
      [] severity = 5 -> -2
      [] OTHER -> 0

\* _clamp(int(base + severity_adj), 1, 10)
ColdStartLevel(a, severity) ==
    _clamp(Trunc(2 * get_base_level_for_age(a) + get_severity_adjustment(severity), 2), 1, 10)

\* sum of acc * weight and sum of weight, weight = (i + 1) / N for the 0-based
\* position i: both sums carry the same factor 1/N, kept out of num and den
RECURSIVE WeightedSum(_, _)
WeightedSum(h, i) ==
    IF i > Len(h) THEN 0 ELSE i * h[i] + WeightedSum(h, i + 1)

TotalWeight(h) == (Len(h) * (Len(h) + 1)) \div 2

\* the weighted accuracy num/den (in ten-thousandths) with the sign e of its
\* rounding error; None for no samples.  One sample has weight 1.0 and is
\* returned as it is.
calculate_weighted_accuracy(h, e) ==
    IF h = <<>> THEN None
    ELSE IF TotalWeight(h) > 0
         THEN [num |-> WeightedSum(h, 1), den |-> TotalWeight(h),
               err |-> IF Len(h) = 1 THEN 0 ELSE e]
         ELSE None

\* w > t and w < t for a computed weighted accuracy w and a threshold t
Above(w, t) == w.num > t * w.den \/ (w.num = t * w.den /\ w.err > 0)
Below(w, t) == w.num < t * w.den \/ (w.num = t * w.den /\ w.err < 0)

\* second_half_avg - first_half_avg, times mid * (N - mid)
TrendDiff(h) ==
    LET mid == Len(h) \div 2
    IN  SumSeq(SubSeq(h, mid + 1, Len(h))) * mid - SumSeq(SubSeq(h, 1, mid)) * (Len(h) - mid)

\* 0.10 times mid * (N - mid)
TrendBand(h) == 1000 * (Len(h) \div 2) * (Len(h) - Len(h) \div 2)

analyze_performance_trend(h, e) ==
    IF Len(h) < 5 THEN "insufficient_data"
    ELSE IF TrendDiff(h) > TrendBand(h) \/ (TrendDiff(h) = TrendBand(h) /\ e > 0)
         THEN "improving"
    ELSE IF TrendDiff(h) < -TrendBand(h) \/ (TrendDiff(h) = -TrendBand(h) /\ e < 0)
         THEN "declining"
    ELSE "stable"

\* variant: the warm-up ends one session early
has_enough_sessions_two(h) == Len(h) >= MIN_SESSIONS_BEFORE_INCREASE - 1

has_enough_sessions(h) == Len(h) >= MIN_SESSIONS_BEFORE_INCREASE

LastThree(h) == SubSeq(h, Len(h) - 2, Len(h))

AllBelow(s, t) == \A i \in 1..Len(s) : s[i] < t
AllAbove(s, t) == \A i \in 1..Len(s) : s[i] > t

\* variant: a weighted accuracy equal to a threshold already changes the level
ThresholdDeltaInclusive(h, rnd) ==
    LET w == calculate_weighted_accuracy(h, rnd.w)
    IN  IF has_enough_sessions(h) /\ ~Below(w, INCREASE_THRESHOLD) THEN 1
        ELSE IF ~Above(w, MAINTAIN_MIN) THEN -1
        ELSE 0

\* variant: the warm-up lasts five sessions
ThresholdDeltaLongWarmup(h, rnd) ==
    LET w == calculate_weighted_accuracy(h, rnd.w)
    IN  IF Len(h) >= 5 /\ Above(w, INCREASE_THRESHOLD) THEN 1
        ELSE IF Below(w, MAINTAIN_MIN) THEN -1
        ELSE 0

\* step 2: base delta from the weighted accuracy
ThresholdDelta(h, rnd) ==
    LET w == calculate_weighted_accuracy(h, rnd.w)
    IN  IF has_enough_sessions(h) /\ Above(w, INCREASE_THRESHOLD) THEN 1
        ELSE IF Below(w, MAINTAIN_MIN) THEN -1
        ELSE 0

\* variant: no override for three struggling sessions
StreakDeltaNoStruggle(h, delta) ==
    IF Len(h) >= 3 /\ has_enough_sessions(h) /\ AllAbove(LastThree(h), 9000)
    THEN 2
    ELSE delta

\* variant: three excellent sessions raise the level by one only
StreakDeltaModest(h, delta) ==
    IF Len(h) >= 3
    THEN IF AllBelow(LastThree(h), 5000) THEN -2
         ELSE IF has_enough_sessions(h) /\ AllAbove(LastThree(h), 9000) THEN 1
         ELSE delta
    ELSE delta

\* step 3: consistent patterns over the last three samples
StreakDelta(h, delta) ==
    IF Len(h) >= 3
    THEN IF AllBelow(LastThree(h), 5000) THEN -2
         ELSE IF has_enough_sessions(h) /\ AllAbove(LastThree(h), 9000) THEN 2
         ELSE delta
    ELSE delta

\* variant: the declining-trend rule applies below 0.90 in place of 0.70
TrendDeltaWide(h, delta, rnd) ==
    LET w == calculate_weighted_accuracy(h, rnd.w)
        trend == analyze_performance_trend(h, rnd.d)
    IN  IF trend = "declining" /\ Below(w, 9000) THEN Min(delta, -1)
        ELSE IF trend = "improving" /\ Above(w, 7500) /\ has_enough_sessions(h)
             THEN (IF delta = 0 THEN 1 ELSE delta)
        ELSE delta

\* variant: max(delta, -1) in place of min(delta, -1)
TrendDeltaMax(h, delta, rnd) ==
    LET w == calculate_weighted_accuracy(h, rnd.w)
        trend == analyze_performance_trend(h, rnd.d)
    IN  IF trend = "declining" /\ Below(w, 7000) THEN Max(delta, -1)
        ELSE IF trend = "improving" /\ Above(w, 7500) /\ has_enough_sessions(h)
             THEN (IF delta = 0 THEN 1 ELSE delta)
        ELSE delta

\* variant: the improving-trend nudge needs a weighted accuracy above 0.80
TrendDeltaLate(h, delta, rnd) ==
    LET w == calculate_weighted_accuracy(h, rnd.w)
        trend == analyze_performance_trend(h, rnd.d)
    IN  IF trend = "declining" /\ Below(w, 7000) THEN Min(delta, -1)
        ELSE IF trend = "improving" /\ Above(w, 8000) /\ has_enough_sessions(h)
             THEN (IF delta = 0 THEN 1 ELSE delta)
        ELSE delta

\* step 4: trend-based fine-tuning
TrendDelta(h, delta, rnd) ==
    LET w == calculate_weighted_accuracy(h, rnd.w)
        trend == analyze_performance_trend(h, rnd.d)
    IN  IF trend = "declining" /\ Below(w, 7000) THEN Min(delta, -1)
        ELSE IF trend = "improving" /\ Above(w, 7500) /\ has_enough_sessions(h)
             THEN (IF delta = 0 THEN 1 ELSE delta)
        ELSE delta

calculate_difficulty_level(a, severity, level, h, rnd) ==
    IF h = <<>> THEN ColdStartLevel(a, severity)
    ELSE IF calculate_weighted_accuracy(h, rnd.w) = None THEN level
    ELSE _clamp(level + TrendDelta(h, StreakDelta(h, ThresholdDelta(h, rnd)), rnd), 1, 10)

\* the rounding errors a call on h can meet: a sign matters on a tie only
WTie(h) ==
    /\ Len(h) >= 2
    /\ \E t \in {INCREASE_THRESHOLD, MAINTAIN_MIN, 7000, 7500} :
           WeightedSum(h, 1) = t * TotalWeight(h)

DTie(h) == Len(h) >= 5 /\ TrendDiff(h) \in {TrendBand(h), -TrendBand(h)}

FpChoices(h) ==
    [w : IF WTie(h) THEN Signs ELSE {0}, d : IF DTie(h) THEN Signs ELSE {0}]

----------------------------------------------------------------------------
\* The database and the request handlers

MaxSessions == 2
\* the rows the exercise_sessions table can hold
MaxRows == 3
MaxOpen == 1
MaxItems == 2
MaxResults == 2

StudentIds == {"s1"}
UnknownStudent == "nobody"
StudentAges == {5, 14}

phonological_awareness == "phonological_awareness"
rapid_naming == "rapid_naming"
Areas == {phonological_awareness, rapid_naming}

\* game_definitions.py: the part of the catalogue the model plays
GAMES == [sound_safari |-> [deficit_area |-> phonological_awareness],
          speed_namer |-> [deficit_area |-> rapid_naming]]
UnknownGame == "no_such_game"

\* the lengths of the item lists generate_exercise_items returns
ItemCounts == {MaxItems}

\* the days the calendar of the model has
MaxDays == 14

\* the days date.today() goes through, one after the other: the last seven
\* days of January and the days of February that follow
Calendar ==
    [i \in 1..MaxDays |->
        IF i <= 7 THEN [mo |-> 1, dy |-> 24 + i] ELSE [mo |-> 2, dy |-> i - 7]]

\* dict.get(key, default) and dict[key] = value on a dict kept as a function
Get(m, k, d) == IF k \in DOMAIN m THEN m[k] ELSE d
Put(m, k, v) == [x \in DOMAIN m \cup {k} |-> IF x = k THEN v ELSE m[x]]
EmptyDict == [x \in {} |-> 0]

NoAssessment == [present |-> FALSE, deficits |-> EmptyDict]
Null == [set |-> FALSE, date |-> [mo |-> 0, dy |-> 0]]

\* the deficits of the assessments that are imported: one area assessed as
\* mild (1), the other area not assessed
DeficitMaps == {[a \in {phonological_awareness} |-> 1]}

get_game(game_id) == game_id \in DOMAIN GAMES

get_student(student_id) == student_id \in DOMAIN students

get_session(session_id) == session_id \in DOMAIN sessions

\* students.py create_student / database.py create_student and the column defaults
NewStudent(a) ==
    [age |-> a, assessment |-> NoAssessment, current_levels |-> EmptyDict,
     total_points |-> 0, xp |-> 0, level |-> 1,
     current_streak |-> 0, longest_streak |-> 0, last_session_date |-> Null,
     badges |-> {}]

\* ids of the completed sessions of a student, of a student and an area
CompletedSessions(student_id) ==
    {i \in DOMAIN sessions :
        sessions[i].student_id = student_id /\ sessions[i].status = "completed"}

CompletedInArea(student_id, deficit_area) ==
    {i \in CompletedSessions(student_id) : sessions[i].deficit_area = deficit_area}

InProgress == {i \in DOMAIN sessions : sessions[i].status = "in_progress"}

\* the ids of S, latest completed_at first
RECURSIVE ByCompletedDesc(_)
ByCompletedDesc(S) ==
    IF S = {} THEN <<>>
    ELSE LET m == CHOOSE i \in S :
                     \A j \in S : sessions[j].completed_at <= sessions[i].completed_at
         IN  <<m>> \o ByCompletedDesc(S \ {m})

Reverse(s) == [i \in 1..Len(s) |-> s[Len(s) + 1 - i]]

Take(s, n) == SubSeq(s, 1, Min(n, Len(s)))

\* SELECT accuracy ... status = 'completed' ORDER BY completed_at DESC LIMIT n,
\* reversed
\* variant: the limit keeps the oldest sessions (ORDER BY completed_at ASC)
get_recent_accuracy_trend_oldest(student_id, deficit_area, limit) ==
    LET rows == Take(Reverse(ByCompletedDesc(CompletedInArea(student_id, deficit_area))), limit)
    IN  [i \in 1..Len(rows) |-> sessions[rows[i]].accuracy]

get_recent_accuracy_trend(student_id, deficit_area, limit) ==
    LET rows == Take(ByCompletedDesc(CompletedInArea(student_id, deficit_area)), limit)
    IN  Reverse([i \in 1..Len(rows) |-> sessions[rows[i]].accuracy])

\* variant: the assessment is not consulted
SeverityIgnored(student, deficit_area) == 3

\* severity = 3 unless the assessment has the area
SeverityOf(student, deficit_area) ==
    IF student.assessment.present
    THEN Get(student.assessment.deficits, deficit_area, 3)
    ELSE 3

CountTrue(results) == Cardinality({i \in 1..Len(results) : results[i]})

\* round(c / t, 4) in ten-thousandths; no quotient with t < 32 is halfway
Round4(c, t) == (2 * Scale * c + t) \div (2 * t)

\* gamification_service.py: points
POINTS_PER_CORRECT == 10
POINTS_PARTICIPATION == 2
PERFECT_SCORE_BONUS == 50
SESSION_COMPLETION_BONUS == 20

\* accuracy is correct_count / total_items (0 when total_items = 0);
\* the bonus is int(base_points * 0.5) when accuracy >= 0.80
calculate_session_points(correct_count, total_items) ==
    LET base_points == correct_count * POINTS_PER_CORRECT
        participation == total_items * POINTS_PARTICIPATION
        bonus == IF total_items > 0 /\ 10 * correct_count >= 8 * total_items
                 THEN Trunc(base_points, 2) ELSE 0
        perfect == IF total_items > 0 /\ correct_count >= total_items
                   THEN PERFECT_SCORE_BONUS ELSE 0
    IN  base_points + participation + bonus + perfect + SESSION_COMPLETION_BONUS

\* int(100 * level ** 1.5): the integer square root of 10000 * level^3
RECURSIVE ISqrt(_, _, _)
ISqrt(x, lo, hi) ==
    IF lo >= hi THEN lo
    ELSE LET mid == (lo + hi + 1) \div 2
         IN  IF mid * mid <= x THEN ISqrt(x, mid, hi) ELSE ISqrt(x, lo, mid - 1)

xp_for_level(level) == ISqrt(10000 * level * level * level, 100 * level, 800 * level)

\* the level field of calculate_level_info(xp)
RECURSIVE LevelFrom(_, _)
LevelFrom(xp, level) ==
    IF level < 50 /\ xp >= xp_for_level(level + 1) THEN LevelFrom(xp, level + 1) ELSE level

calculate_level_info(xp) == LevelFrom(xp, 1)

\* isoformat() of a date, and of the TIMESTAMPTZ a row gives back
DateIso(d) == [date |-> d, time |-> ""]
RowIso(ts) == [date |-> ts.date, time |-> "T00:00:00+00:00"]

\* update_streak on the student row st; date is date.today()
update_streak(st, date) ==
    LET last_is(d) == st.last_session_date.set /\ RowIso(st.last_session_date) = DateIso(d)
        yesterday == IF date.dy > 1 THEN [mo |-> date.mo, dy |-> date.dy - 1] ELSE date
        current_streak == IF last_is(yesterday) THEN st.current_streak + 1 ELSE 1
    IN  IF last_is(date) THEN st
        ELSE [st EXCEPT !.current_streak = current_streak,
                        !.longest_streak = Max(st.longest_streak, current_streak),
                        !.last_session_date = [set |-> TRUE, date |-> date]]

\* the badges in the order check_and_award_badges tests them; the mastery
\* badges of the four areas without a game in GAMES are never earned
BadgeOrder ==
    <<"first_steps", "getting_started", "dedicated_learner", "champion",
      "sound_master", "speed_demon",
      "three_day_streak", "week_warrior", "two_week_champion", "month_master",
      "perfect_score", "level_up", "level_up_10", "point_collector", "point_master",
      "all_rounder">>

\* get_deficit_area_stats: sessions >= 5 and avg_accuracy >= 0.90
Mastered(student_id, deficit_area) ==
    LET S == CompletedInArea(student_id, deficit_area)
        accs == [i \in 1..Cardinality(S) |-> sessions[ByCompletedDesc(S)[i]].accuracy]
    IN  Cardinality(S) >= 5 /\ SumSeq(accs) >= 9000 * Cardinality(S)

\* the condition of badge b; perfect: session_data["accuracy"] >= 1.0
BadgeCondition(b, st, student_id, perfect) ==
    LET total_sessions == Cardinality(CompletedSessions(student_id))
        areas_played == {sessions[i].deficit_area : i \in CompletedSessions(student_id)}
    IN  CASE b = "first_steps" -> total_sessions >= 1
          [] b = "getting_started" -> total_sessions >= 5
          [] b = "dedicated_learner" -> total_sessions >= 25
          [] b = "champion" -> total_sessions >= 100
          [] b = "sound_master" -> Mastered(student_id, phonological_awareness)
          [] b = "speed_demon" -> Mastered(student_id, rapid_naming)
          [] b = "three_day_streak" -> st.current_streak >= 3
          [] b = "week_warrior" -> st.current_streak >= 7
          [] b = "two_week_champion" -> st.current_streak >= 14
          [] b = "month_master" -> st.current_streak >= 30
          [] b = "perfect_score" -> perfect
          [] b = "level_up" -> st.level >= 5
          [] b = "level_up_10" -> st.level >= 10
          [] b = "point_collector" -> st.total_points >= 500
          [] b = "point_master" -> st.total_points >= 5000
          [] b = "all_rounder" -> Cardinality(areas_played) >= 6
          [] OTHER -> FALSE

\* new_badges of check_and_award_badges on the student row st
\* variant: a badge is reported whenever its condition holds, held or not
check_and_award_badges_again(st, student_id, perfect) ==
    LET Test(b) == BadgeCondition(b, st, student_id, perfect)
    IN  SelectSeq(BadgeOrder, Test)

check_and_award_badges(st, student_id, perfect) ==
    LET Test(b) == b \notin st.badges /\ BadgeCondition(b, st, student_id, perfect)
    IN  SelectSeq(BadgeOrder, Test)

Range(s) == {s[i] : i \in 1..Len(s)}

\* variant: the level moves by one without the limits 1 and 10
AdjustLevelsUnlimited(current_levels, deficit_area, correct_count, total_items) ==
    IF total_items > 0 /\ 100 * correct_count > 85 * total_items
    THEN Put(current_levels, deficit_area, Get(current_levels, deficit_area, 1) + 1)
    ELSE IF total_items = 0 \/ 100 * correct_count < 50 * total_items
    THEN Put(current_levels, deficit_area, Get(current_levels, deficit_area, 1) - 1)
    ELSE current_levels

\* variant: an accuracy of exactly 0.50 already lowers the level
AdjustLevelsInclusive(current_levels, deficit_area, correct_count, total_items) ==
    IF total_items > 0 /\ 100 * correct_count > 85 * total_items
    THEN Put(current_levels, deficit_area, Min(10, Get(current_levels, deficit_area, 1) + 1))
    ELSE IF total_items = 0 \/ 100 * correct_count <= 50 * total_items
    THEN Put(current_levels, deficit_area, Max(1, Get(current_levels, deficit_area, 1) - 1))
    ELSE current_levels

\* complete_session lines 175-181: the per-area level after a session of
\* accuracy correct_count / total_items
AdjustLevels(current_levels, deficit_area, correct_count, total_items) ==
    IF total_items > 0 /\ 100 * correct_count > 85 * total_items
    THEN Put(current_levels, deficit_area, Min(10, Get(current_levels, deficit_area, 1) + 1))
    ELSE IF total_items = 0 \/ 100 * correct_count < 50 * total_items
    THEN Put(current_levels, deficit_area, Max(1, Get(current_levels, deficit_area, 1) - 1))
    ELSE current_levels

\* POST /students
create_student(student_id, a) ==
    /\ student_id \notin DOMAIN students
    /\ students' = Put(students, student_id, NewStudent(a))
    /\ response' = 200
    /\ UNCHANGED <<sessions, clock, today>>

\* database.py save_assessment: every assessed area is seeded with
\* max(1, 6 - severity) and current_levels is replaced
save_assessment(st, deficits) ==
    [st EXCEPT !.assessment = [present |-> TRUE, deficits |-> deficits],
               !.current_levels = [area \in DOMAIN deficits |-> Max(1, 6 - deficits[area])]]

\* POST /students/{student_id}/assessment
import_assessment(student_id, deficits) ==
    /\ IF ~get_student(student_id)
       THEN /\ response' = 404
            /\ UNCHANGED students
       ELSE /\ students' = [students EXCEPT ![student_id] = save_assessment(@, deficits)]
            /\ response' = 200
    /\ UNCHANGED <<sessions, clock, today>>

\* the session row start_session inserts; total_items is len(items)
NewSession(student_id, game_id, difficulty, total_items) ==
    [student_id |-> student_id, game_id |-> game_id,
     deficit_area |-> GAMES[game_id].deficit_area,
     difficulty_level |-> difficulty, total_items |-> total_items,
     results |-> <<>>, correct_count |-> 0, accuracy |-> 0,
     points_earned |-> 0, badges_earned |-> <<>>,
     completed_at |-> 0, status |-> "in_progress"]

\* the roundings the engine can meet in start_session(student_id, game_id)
StartRoundings(student_id, game_id) ==
    IF get_student(student_id) /\ get_game(game_id)
    THEN FpChoices(get_recent_accuracy_trend(student_id, GAMES[game_id].deficit_area, 5))
    ELSE {[w |-> 0, d |-> 0]}

\* variant: the engine's level is also stored as the student's level
start_session_persisting(student_id, game_id, total_items, rnd) ==
    /\ UNCHANGED <<clock, today>>
    /\ IF ~get_student(student_id) \/ ~get_game(game_id)
       THEN /\ response' = 404
            /\ UNCHANGED <<students, sessions>>
       ELSE LET student == students[student_id]
                deficit_area == GAMES[game_id].deficit_area
                level == Get(student.current_levels, deficit_area, 1)
                recent == get_recent_accuracy_trend(student_id, deficit_area, 5)
                severity == SeverityOf(student, deficit_area)
                difficulty == calculate_difficulty_level(student.age, severity, level,
                                                         recent, rnd)
            IN  /\ Len(sessions) < MaxRows
                /\ Cardinality(InProgress) < MaxOpen
                /\ students' = [students EXCEPT ![student_id].current_levels =
                                    Put(@, deficit_area, difficulty)]
                /\ sessions' = Append(sessions,
                                      NewSession(student_id, game_id, difficulty, total_items))
                /\ response' = 200

\* POST /exercises/start.  The items come from generate_exercise_items, which
\* is outside the model: the length of its list is an input of the request.
\* rnd is the rounding of the engine's floating-point arithmetic.
start_session(student_id, game_id, total_items, rnd) ==
    /\ UNCHANGED <<students, clock, today>>
    /\ IF ~get_student(student_id) \/ ~get_game(game_id)
       THEN /\ response' = 404
            /\ UNCHANGED sessions
       ELSE LET student == students[student_id]
                deficit_area == GAMES[game_id].deficit_area
                level == Get(student.current_levels, deficit_area, 1)
                recent == get_recent_accuracy_trend(student_id, deficit_area, 5)
                severity == SeverityOf(student, deficit_area)
                difficulty == calculate_difficulty_level(student.age, severity, level,
                                                         recent, rnd)
            IN  /\ Len(sessions) < MaxRows
                /\ Cardinality(InProgress) < MaxOpen
                /\ sessions' = Append(sessions,
                                      NewSession(student_id, game_id, difficulty, total_items))
                /\ response' = 200

\* POST /exercises/{session_id}/submit; is_correct is the comparison of the
\* submitted answer with the item's correct_answer
submit_item(session_id, item_index, is_correct) ==
    /\ UNCHANGED <<students, clock, today>>
    /\ IF ~get_session(session_id)
       THEN /\ response' = 404
            /\ UNCHANGED sessions
       ELSE IF sessions[session_id].status # "in_progress"
       THEN /\ response' = 400
            /\ UNCHANGED sessions
       ELSE IF item_index \notin 0..(sessions[session_id].total_items - 1)
       THEN /\ response' = 404
            /\ UNCHANGED sessions
       ELSE LET results == Append(sessions[session_id].results, is_correct)
            IN  /\ Len(sessions[session_id].results) < MaxResults
                /\ sessions' = [sessions EXCEPT ![session_id].results = results,
                                                ![session_id].correct_count = CountTrue(results)]
                /\ response' = 200

\* the student row after lines 168-197 of complete_session: points, xp,
\* level and the area's level, then update_streak
RewardedStudent(st, session, points) ==
    LET correct_count == CountTrue(session.results)
        new_xp == st.xp + points
        updated == [st EXCEPT !.total_points = st.total_points + points,
                              !.xp = new_xp,
                              !.level = calculate_level_info(new_xp),
                              !.current_levels =
                                  AdjustLevels(st.current_levels, session.deficit_area,
                                               correct_count, session.total_items)]
    IN  update_streak(updated, Calendar[today])

\* POST /exercises/{session_id}/complete
complete_session(session_id) ==
    /\ UNCHANGED today
    /\ IF ~get_session(session_id)
       THEN /\ response' = 404
            /\ UNCHANGED <<students, sessions, clock>>
       ELSE IF sessions[session_id].status # "in_progress"
       THEN /\ response' = 400
            /\ UNCHANGED <<students, sessions, clock>>
       ELSE LET session == sessions[session_id]
                total_items == session.total_items
                correct_count == CountTrue(session.results)
                points == calculate_session_points(correct_count, total_items)
                found == get_student(session.student_id)
                st == RewardedStudent(students[session.student_id], session, points)
                perfect == total_items > 0 /\ correct_count >= total_items
                badges_earned ==
                    IF found THEN check_and_award_badges(st, session.student_id, perfect)
                    ELSE <<>>
            IN  /\ students' =
                       IF found
                       THEN [students EXCEPT ![session.student_id] =
                                [st EXCEPT !.badges = st.badges \cup Range(badges_earned)]]
                       ELSE students
                /\ clock' = clock + 1
                /\ sessions' = [sessions EXCEPT ![session_id] =
                       [session EXCEPT !.completed_at = clock + 1,
                                       !.correct_count = correct_count,
                                       !.accuracy = IF total_items > 0
                                                    THEN Round4(correct_count, total_items)
                                                    ELSE 0,
                                       !.points_earned = points,
                                       !.badges_earned = badges_earned,
                                       !.status = "completed"]]
                /\ response' = 200

----------------------------------------------------------------------------
\* Session parameters and area recommendations (adaptive_difficulty.py)

\* variant: the hints fall with every level instead of every second level
calculate_session_parameters_steep(level) ==
    [item_count |-> _clamp(8 + level * 2, 10, 30),
     time_limit_seconds |-> Max(5, 30 - level * 2),
     hints_available |-> Max(0, 5 - level),
     distractor_count |-> Min(3, 1 + level \div 3)]

\* level // 2 and level // 3 are floor divisions of a positive level
calculate_session_parameters(level) ==
    [item_count |-> _clamp(8 + level * 2, 10, 30),
     time_limit_seconds |-> Max(5, 30 - level * 2),
     hints_available |-> Max(0, 5 - level \div 2),
     distractor_count |-> Min(3, 1 + level \div 3)]

NoParams ==
    [item_count |-> 0, time_limit_seconds |-> 0, hints_available |-> 0,
     distractor_count |-> 0]

\* the values of DeficitArea, in the order of the enumeration
AreaNames ==
    <<"phonological_awareness", "rapid_naming", "working_memory",
      "visual_processing", "reading_fluency", "comprehension">>

\* an entry of the deficits map without a "severity" (or not a dict at all)
NoSeverity == [has |-> FALSE, severity |-> 0]

\* info.get("severity", 3) if isinstance(info, dict) else 3
InfoSeverity(info) == IF info.has THEN info.severity ELSE 3

\* sum(recent) / len(recent) > 0.90, the quotient being the computed one: on
\* a tie the sign e of its rounding error decides
AvgTie(h) == h # <<>> /\ SumSeq(h) = 9000 * Len(h)
AvgAbove90(h, e) ==
    /\ h # <<>>
    /\ \/ SumSeq(h) > 9000 * Len(h)
       \/ (AvgTie(h) /\ e > 0)

\* variant: the two under-practice bonuses add up
PracticeBonusBoth(session_count) ==
    (IF session_count < 3 THEN 3 ELSE 0) + (IF session_count < 5 THEN 1 ELSE 0)

\* lines 201-205
PracticeBonus(session_count) ==
    IF session_count < 3 THEN 3
    ELSE IF session_count < 5 THEN 1
    ELSE 0

\* the body of the loop of get_recommended_deficit_areas for one area; e is
\* the rounding of the trend difference (e.d) and of the average (e.a)
Recommendation(area, info, recent, e) ==
    LET severity == InfoSeverity(info)
        session_count == Len(recent)
        trend == analyze_performance_trend(recent, e.d)
        p1 == severity * 2 + PracticeBonus(session_count)
        p2 == IF trend = "declining" THEN p1 + 2 ELSE p1
        p3 == IF /\ trend = "improving"
                 /\ Len(recent) >= 2
                 /\ recent[Len(recent)] > recent[Len(recent) - 1]
              THEN p2 + 1 ELSE p2
        p4 == IF AvgAbove90(recent, e.a) /\ session_count >= 10 THEN p3 - 2 ELSE p3
    IN  [area |-> area, severity |-> severity, priority |-> Max(1, p4),
         sessions_completed |-> session_count, trend |-> trend]

\* the number of entries of s whose priority is at least (above) p
CountAtLeast(s, p) == Cardinality({i \in 1..Len(s) : s[i].priority >= p})
CountAbove(s, p) == Cardinality({i \in 1..Len(s) : s[i].priority > p})

\* variant: an entry goes in front of the entries of equal priority
InsertFirst(sorted, r) ==
    LET k == CountAbove(sorted, r.priority)
    IN  SubSeq(sorted, 1, k) \o <<r>> \o SubSeq(sorted, k + 1, Len(sorted))

\* list.sort is stable, also with reverse=True: an entry goes behind the
\* entries of greater or equal priority
InsertStable(sorted, r) ==
    LET k == CountAtLeast(sorted, r.priority)
    IN  SubSeq(sorted, 1, k) \o <<r>> \o SubSeq(sorted, k + 1, Len(sorted))

\* recommendations.sort(key=lambda x: x["priority"], reverse=True)
RECURSIVE SortByPriority(_, _)
SortByPriority(sorted, rest) ==
    IF rest = <<>> THEN sorted
    ELSE SortByPriority(InsertStable(sorted, Head(rest)), Tail(rest))

\* deficits is the map in its iteration order, a sequence of [area, info];
\* avg_accuracy (rounded to two decimals, used for display) is left out of
\* the returned entries
get_recommended_deficit_areas(deficits, history, rnd) ==
    LET entries == [i \in 1..Len(deficits) |->
                       Recommendation(deficits[i].area, deficits[i].info,
                                      Get(history, deficits[i].area, <<>>), rnd[i])]
    IN  SortByPriority(<<>>, entries)

\* the roundings one area can meet: free only where a comparison is on a tie
AreaRoundings(h) ==
    [d : IF DTie(h) THEN Signs ELSE {0}, a : IF AvgTie(h) THEN Signs ELSE {0}]

\* the roundings of a call, one per entry of deficits from the i-th on
RECURSIVE RoundingsFrom(_, _, _)
RoundingsFrom(deficits, history, i) ==
    IF i > Len(deficits) THEN {<<>>}
    ELSE {<<r>> \o rest :
            r \in AreaRoundings(Get(history, deficits[i].area, <<>>)),
            rest \in RoundingsFrom(deficits, history, i + 1)}

AdvisorRoundings(deficits, history) == RoundingsFrom(deficits, history, 1)

AdvisorIdle ==
    /\ difficulty_level = 1
    /\ params = NoParams
    /\ area_deficits = <<>>
    /\ session_history = EmptyDict
    /\ recommendations = <<>>
    /\ advisor = [pc |-> "idle", rnd |-> <<>>]

ConcIdle == calls = EmptyDict

PureIdle == invocations = EmptyDict /\ history_arg = <<>> /\ rounding = [w |-> 0, d |-> 0]

ShopIdle ==
    /\ shop_items = EmptyDict
    /\ user_purchases = {}
    /\ points_ledger = <<>>
    /\ buyers = EmptyDict

AdventureIdle ==
    /\ adventure_maps = EmptyDict
    /\ next_adventure = 0

StoreIdle == ShopIdle /\ AdventureIdle

AuxIdle == AdvisorIdle /\ ConcIdle /\ PureIdle /\ StoreIdle

SystemInit ==
    /\ students = EmptyDict
    /\ sessions = <<>>
    /\ clock = 0
    /\ today = 1
    /\ response = 0

EngineIdle ==
    /\ pc = "idle"
    /\ age = 4 /\ deficit_severity = 3 /\ current_level = 1
    /\ recent_accuracies = <<>>
    /\ fp = [w |-> 0, d |-> 0]
    /\ new_level = 0

Init == SystemInit /\ EngineIdle /\ AuxIdle

Next ==
    \/ \E id \in StudentIds, a \in StudentAges : create_student(id, a) /\ UNCHANGED <<engine_vars, aux_vars>>
    \/ \E id \in StudentIds \cup {UnknownStudent}, deficits \in DeficitMaps :
           import_assessment(id, deficits) /\ UNCHANGED <<engine_vars, aux_vars>>
    \/ \E id \in StudentIds \cup {UnknownStudent}, g \in DOMAIN GAMES \cup {UnknownGame},
          n \in ItemCounts :
           \E rnd \in StartRoundings(id, g) :
               /\ (get_student(id) /\ get_game(g)) => Len(sessions) < MaxSessions
               /\ start_session(id, g, n, rnd)
               /\ UNCHANGED <<engine_vars, aux_vars>>
    \/ \E sid \in 1..MaxSessions, idx \in 0..MaxItems, ok \in BOOLEAN :
           submit_item(sid, idx, ok) /\ UNCHANGED <<engine_vars, aux_vars>>
    \/ \E sid \in 1..MaxSessions : complete_session(sid) /\ UNCHANGED <<engine_vars, aux_vars>>

Spec == Init /\ [][Next]_vars

----------------------------------------------------------------------------
\* The engine called on its own, on every input of a bounded domain

SeqsOver(S, lo, hi) == UNION {[1..n -> S] : n \in lo..hi}

EngineInit ==
    /\ SystemInit
    /\ AuxIdle
    /\ pc = "call"
    /\ new_level = 0
    /\ fp = [w |-> 0, d |-> 0]
    /\ current_level \in Levels
    /\ \/ /\ recent_accuracies = <<>>
          /\ age \in Ages
          /\ deficit_severity \in Severities
       \/ /\ recent_accuracies \in SeqsOver(Grid, 1, MaxHist)
          /\ \E p \in WarmProfiles : age = p[1] /\ deficit_severity = p[2]
       \/ /\ recent_accuracies \in SeqsOver(CoarseGrid, 3, MaxLong)
          /\ \E p \in LongProfiles : age = p[1] /\ deficit_severity = p[2]
          /\ current_level \in LongLevels

EngineCall ==
    /\ pc = "call"
    /\ fp' \in FpChoices(recent_accuracies)
    /\ new_level' = calculate_difficulty_level(age, deficit_severity, current_level,
                                                recent_accuracies, fp')
    /\ pc' = "done"
    /\ UNCHANGED <<age, deficit_severity, current_level, recent_accuracies>>
    /\ UNCHANGED <<system_vars, aux_vars>>

EngineNext == EngineCall

SpecEngine == EngineInit /\ [][EngineNext]_vars

----------------------------------------------------------------------------
\* calculate_session_parameters and get_recommended_deficit_areas called on
\* their own, on every input of a bounded domain

MaxRecLen == 10
MaxAreas == 3

RecGrid == {3000, 9000, 10000}

\* histories of n samples: a first half, a second half and a newest sample
HistShapes(n) ==
    {[i \in 1..n |-> IF i <= n \div 2 THEN x ELSE IF i < n THEN y ELSE z] :
        x \in RecGrid, y \in RecGrid, z \in RecGrid}

RecHistories == UNION {HistShapes(n) : n \in 0..MaxRecLen}

RecInfos == {NoSeverity} \cup {[has |-> TRUE, severity |-> s] : s \in Severities}

\* the entries and histories of the areas after the first
OtherAreas ==
    {[info |-> [has |-> TRUE, severity |-> 1], recent |-> <<>>],
     [info |-> [has |-> TRUE, severity |-> 2], recent |-> <<9000, 9000, 9000>>],
     [info |-> [has |-> TRUE, severity |-> 3], recent |-> <<>>],
     [info |-> NoSeverity, recent |-> <<10000, 10000, 10000, 3000, 3000>>]}

AdvisorInit ==
    /\ SystemInit
    /\ EngineIdle
    /\ ConcIdle
    /\ PureIdle
    /\ StoreIdle
    /\ params = NoParams
    /\ recommendations = <<>>
    /\ \/ /\ difficulty_level \in Levels
          /\ area_deficits = <<>>
          /\ session_history = EmptyDict
          /\ advisor = [pc |-> "parameters", rnd |-> <<>>]
       \/ /\ difficulty_level = 1
          /\ advisor = [pc |-> "recommend", rnd |-> <<>>]
          /\ \/ /\ area_deficits = <<>>
                /\ session_history = EmptyDict
             \/ \E n \in 1..MaxAreas, info \in RecInfos, recent \in RecHistories :
                \E others \in [2..n -> OtherAreas] :
                    /\ area_deficits =
                           [i \in 1..n |->
                               [area |-> AreaNames[i],
                                info |-> IF i = 1 THEN info ELSE others[i].info]]
                    /\ session_history =
                           [a \in {AreaNames[i] : i \in 1..n} |->
                               IF a = AreaNames[1] THEN recent
                               ELSE LET i == CHOOSE j \in 2..n : AreaNames[j] = a
                                    IN  others[i].recent]

ParametersCall ==
    /\ advisor.pc = "parameters"
    /\ params' = calculate_session_parameters(difficulty_level)
    /\ advisor' = [advisor EXCEPT !.pc = "done"]
    /\ UNCHANGED <<difficulty_level, area_deficits, session_history, recommendations>>
    /\ UNCHANGED <<engine_vars, system_vars, conc_vars, pure_vars, store_vars>>

RecommendCall ==
    /\ advisor.pc = "recommend"
    /\ \E rnd \in AdvisorRoundings(area_deficits, session_history) :
           /\ recommendations' =
                  get_recommended_deficit_areas(area_deficits, session_history, rnd)
           /\ advisor' = [pc |-> "recommended", rnd |-> rnd]
    /\ UNCHANGED <<difficulty_level, params, area_deficits, session_history>>
    /\ UNCHANGED <<engine_vars, system_vars, conc_vars, pure_vars, store_vars>>

AdvisorNext == ParametersCall \/ RecommendCall

SpecAdvisor == AdvisorInit /\ [][AdvisorNext]_vars

----------------------------------------------------------------------------
\* The session endpoints on sessions of every length from one item up, for
\* one student and one game

ItemsNext ==
    \/ \E id \in StudentIds : create_student(id, 14) /\ UNCHANGED <<engine_vars, aux_vars>>
    \/ \E id \in StudentIds, n \in 1..MaxItems :
           \E rnd \in StartRoundings(id, "sound_safari") :
               start_session(id, "sound_safari", n, rnd) /\ UNCHANGED <<engine_vars, aux_vars>>
    \/ \E sid \in 1..MaxRows, idx \in 0..(MaxItems - 1), ok \in BOOLEAN :
           submit_item(sid, idx, ok) /\ UNCHANGED <<engine_vars, aux_vars>>
    \/ \E sid \in 1..MaxRows : complete_session(sid) /\ UNCHANGED <<engine_vars, aux_vars>>

SpecItems == Init /\ [][ItemsNext]_vars

----------------------------------------------------------------------------
\* Two complete_session requests in flight at once.  A request runs from one
\* database statement to the next; between two statements of one request the
\* statements of the other may run.

Callers == {"a", "b"}

\* the student is met later in life: the stored level of both areas is one of
\* these, or no level is stored
ConcLevels == {5, 10}
ConcLevelMaps == {EmptyDict} \cup {[area \in Areas |-> l] : l \in ConcLevels}

\* the answers of a session in progress: none, one or all of them correct
ConcResults ==
    {[i \in 1..MaxItems |-> FALSE], [i \in 1..MaxItems |-> i = 1],
     [i \in 1..MaxItems |-> TRUE]}

\* an assessment imported meanwhile: one area of the gravest severity, which
\* seeds the lowest level
ConcDeficitMaps == {[area \in {phonological_awareness} |-> 5]}

ConcSession(game_id, results) ==
    [NewSession("s1", game_id, ColdStartLevel(14, 3), MaxItems)
        EXCEPT !.results = results, !.correct_count = CountTrue(results)]

Frame(session_id) ==
    [pc |-> "get_session", session_id |-> session_id, session |-> EmptyDict,
     student |-> EmptyDict, update |-> EmptyDict, badges_student |-> EmptyDict,
     badges_earned |-> <<>>, status_code |-> 0]

ConcInit ==
    /\ EngineIdle
    /\ AdvisorIdle
    /\ PureIdle
    /\ StoreIdle
    /\ clock = 0
    /\ today = 1
    /\ response = 0
    /\ \E levels \in ConcLevelMaps :
           students = [id \in StudentIds |->
                          [NewStudent(14) EXCEPT !.current_levels = levels]]
    /\ \E g2 \in DOMAIN GAMES, r1 \in ConcResults, r2 \in ConcResults :
           sessions = <<ConcSession("sound_safari", r1), ConcSession(g2, r2)>>
    /\ \E target \in {1, 2} :
           calls = [k \in Callers |-> IF k = "a" THEN Frame(1) ELSE Frame(target)]

\* the values a request derives from the session row it read (lines 157-165)
CallCorrect(f) == CountTrue(f.session.results)
CallPoints(f) == calculate_session_points(CallCorrect(f), f.session.total_items)
CallPerfect(f) ==
    f.session.total_items > 0 /\ CallCorrect(f) >= f.session.total_items

ConcFrame == <<engine_vars, advisor_vars, pure_vars, store_vars, today>>

\* session = await db.get_session(session_id), lines 151-155
GetSession(k) ==
    LET f == calls[k]
    IN  /\ f.pc = "get_session"
        /\ IF ~get_session(f.session_id)
           THEN /\ calls' = [calls EXCEPT ![k].pc = "done", ![k].status_code = 404]
                /\ response' = 404
           ELSE IF sessions[f.session_id].status # "in_progress"
           THEN /\ calls' = [calls EXCEPT ![k].pc = "done", ![k].status_code = 400]
                /\ response' = 400
           ELSE /\ calls' = [calls EXCEPT ![k].pc = "get_student",
                                          ![k].session = sessions[f.session_id]]
                /\ UNCHANGED response
        /\ UNCHANGED <<students, sessions, clock, ConcFrame>>

\* student = await db.get_student(...) and the values of lines 169-181
GetStudent(k) ==
    LET f == calls[k]
        id == f.session.student_id
        student == students[id]
        new_xp == student.xp + CallPoints(f)
    IN  /\ f.pc = "get_student"
        /\ IF ~get_student(id)
           THEN calls' = [calls EXCEPT ![k].pc = "update_session"]
           ELSE calls' = [calls EXCEPT
                    ![k].pc = "update_student",
                    ![k].student = student,
                    ![k].update =
                        [total_points |-> student.total_points + CallPoints(f),
                         xp |-> new_xp,
                         level |-> calculate_level_info(new_xp),
                         current_levels |->
                             AdjustLevels(student.current_levels, f.session.deficit_area,
                                          CallCorrect(f), f.session.total_items)]]
        /\ UNCHANGED <<students, sessions, clock, response, ConcFrame>>

\* await db.update_student(...), lines 183-188: the four columns are written
UpdateStudent(k) ==
    LET f == calls[k]
    IN  /\ f.pc = "update_student"
        /\ students' = [students EXCEPT ![f.session.student_id] =
                           [@ EXCEPT !.total_points = f.update.total_points,
                                     !.xp = f.update.xp,
                                     !.level = f.update.level,
                                     !.current_levels = f.update.current_levels]]
        /\ calls' = [calls EXCEPT ![k].pc = "streak_get"]
        /\ UNCHANGED <<sessions, clock, response, ConcFrame>>

\* update_streak, its read: the row and the three values it will write,
\* unless last_session_date == today
StreakGet(k) ==
    LET f == calls[k]
        student == students[f.session.student_id]
        after == update_streak(student, Calendar[today])
        played_today == /\ student.last_session_date.set
                        /\ RowIso(student.last_session_date) = DateIso(Calendar[today])
    IN  /\ f.pc = "streak_get"
        /\ calls' = [calls EXCEPT
               ![k].pc = IF played_today THEN "badges_get" ELSE "streak_update",
               ![k].update = [current_streak |-> after.current_streak,
                              longest_streak |-> after.longest_streak,
                              last_session_date |-> after.last_session_date]]
        /\ UNCHANGED <<students, sessions, clock, response, ConcFrame>>

\* update_streak, its write
StreakUpdate(k) ==
    LET f == calls[k]
    IN  /\ f.pc = "streak_update"
        /\ students' = [students EXCEPT ![f.session.student_id] =
                           [@ EXCEPT !.current_streak = f.update.current_streak,
                                     !.longest_streak = f.update.longest_streak,
                                     !.last_session_date = f.update.last_session_date]]
        /\ calls' = [calls EXCEPT ![k].pc = "badges_get"]
        /\ UNCHANGED <<sessions, clock, response, ConcFrame>>

\* check_and_award_badges, student = await db.get_student(student_id)
BadgesGet(k) ==
    LET f == calls[k]
    IN  /\ f.pc = "badges_get"
        /\ calls' = [calls EXCEPT ![k].pc = "badges_stats",
                                  ![k].badges_student = students[f.session.student_id]]
        /\ UNCHANGED <<students, sessions, clock, response, ConcFrame>>

\* check_and_award_badges, the statistics queries (taken as one read of the
\* sessions table) and the badge conditions
BadgesStats(k) ==
    LET f == calls[k]
        new_badges == check_and_award_badges(f.badges_student, f.session.student_id, CallPerfect(f))
    IN  /\ f.pc = "badges_stats"
        /\ calls' = [calls EXCEPT
               ![k].pc = IF new_badges # <<>> THEN "badges_update" ELSE "update_session",
               ![k].badges_earned = new_badges]
        /\ UNCHANGED <<students, sessions, clock, response, ConcFrame>>

\* check_and_award_badges, lines 212-214: current_badges | set(new_badges)
BadgesUpdate(k) ==
    LET f == calls[k]
    IN  /\ f.pc = "badges_update"
        /\ students' = [students EXCEPT ![f.session.student_id].badges =
                           f.badges_student.badges \cup Range(f.badges_earned)]
        /\ calls' = [calls EXCEPT ![k].pc = "update_session"]
        /\ UNCHANGED <<sessions, clock, response, ConcFrame>>

\* await db.update_session(...), lines 202-213
UpdateSession(k) ==
    LET f == calls[k]
        total_items == f.session.total_items
    IN  /\ f.pc = "update_session"
        /\ clock' = clock + 1
        /\ sessions' = [sessions EXCEPT ![f.session_id] =
               [@ EXCEPT !.completed_at = clock + 1,
                         !.correct_count = CallCorrect(f),
                         !.accuracy = IF total_items > 0
                                      THEN Round4(CallCorrect(f), total_items)
                                      ELSE 0,
                         !.points_earned = CallPoints(f),
                         !.badges_earned = f.badges_earned,
                         !.status = "completed"]]
        /\ calls' = [calls EXCEPT ![k].pc = "done", ![k].status_code = 200]
        /\ response' = 200
        /\ UNCHANGED <<students, ConcFrame>>

ConcNext ==
    \/ \E k \in Callers : GetSession(k)
    \/ \E k \in Callers : GetStudent(k)
    \/ \E k \in Callers : UpdateStudent(k)
    \/ \E k \in Callers : StreakGet(k)
    \/ \E k \in Callers : StreakUpdate(k)
    \/ \E k \in Callers : BadgesGet(k)
    \/ \E k \in Callers : BadgesStats(k)
    \/ \E k \in Callers : BadgesUpdate(k)
    \/ \E k \in Callers : UpdateSession(k)
    \/ \E id \in StudentIds, deficits \in ConcDeficitMaps :
           import_assessment(id, deficits) /\ UNCHANGED <<engine_vars, aux_vars>>

SpecConc == ConcInit /\ [][ConcNext]_vars

----------------------------------------------------------------------------
\* Invocations of calculate_difficulty_level running at once on one list
\* object, each advancing statement by statement in any order.

Invokers == {"p", "q"}

PureGrid == {3000, 7000, 9500}

\* the scalar arguments (age, deficit_severity, current_level) of an invocation
PureProfiles == {<<9, 3, 5>>, <<14, 1, 10>>}

Invocation(profile) ==
    [pc |-> "enter", age |-> profile[1], deficit_severity |-> profile[2],
     current_level |-> profile[3], delta |-> 0, result |-> 0]

PureInit ==
    /\ SystemInit
    /\ EngineIdle
    /\ AdvisorIdle
    /\ ConcIdle
    /\ StoreIdle
    /\ history_arg \in SeqsOver(PureGrid, 0, MaxHist)
    /\ rounding \in FpChoices(history_arg)
    /\ invocations \in [Invokers -> {Invocation(profile) : profile \in PureProfiles}]

\* variant: the last three samples are cut out of the argument itself
AfterSliceInPlace(h) == LastThree(h)

\* line 141, last_three = recent_accuracies[-3:]: the slice is a new list
\* and the argument is left as it is
AfterSlice(h) == h

PureFrame == <<engine_vars, system_vars, advisor_vars, conc_vars, store_vars, rounding>>

\* lines 117-126: the cold start returns at once; otherwise the weighted
\* accuracy is computed
PureEnter(k) ==
    LET f == invocations[k]
    IN  /\ f.pc = "enter"
        /\ IF history_arg = <<>>
           THEN invocations' = [invocations EXCEPT
                    ![k].pc = "done",
                    ![k].result = ColdStartLevel(f.age, f.deficit_severity)]
           ELSE IF calculate_weighted_accuracy(history_arg, rounding.w) = None
           THEN invocations' = [invocations EXCEPT
                    ![k].pc = "done", ![k].result = f.current_level]
           ELSE invocations' = [invocations EXCEPT ![k].pc = "threshold"]
        /\ UNCHANGED <<history_arg, PureFrame>>

\* lines 128-137
PureThreshold(k) ==
    /\ invocations[k].pc = "threshold"
    /\ invocations' = [invocations EXCEPT
           ![k].pc = "streak", ![k].delta = ThresholdDelta(history_arg, rounding)]
    /\ UNCHANGED <<history_arg, PureFrame>>

\* lines 139-145
PureStreak(k) ==
    /\ invocations[k].pc = "streak"
    /\ invocations' = [invocations EXCEPT
           ![k].pc = "trend", ![k].delta = StreakDelta(history_arg, @)]
    /\ history_arg' = (IF Len(history_arg) >= 3 THEN AfterSlice(history_arg) ELSE history_arg)
    /\ UNCHANGED PureFrame

\* lines 147-155
PureTrend(k) ==
    /\ invocations[k].pc = "trend"
    /\ invocations' = [invocations EXCEPT
           ![k].pc = "return", ![k].delta = TrendDelta(history_arg, @, rounding)]
    /\ UNCHANGED <<history_arg, PureFrame>>

\* lines 157-158
PureReturn(k) ==
    LET f == invocations[k]
    IN  /\ f.pc = "return"
        /\ invocations' = [invocations EXCEPT
               ![k].pc = "done", ![k].result = _clamp(f.current_level + f.delta, 1, 10)]
        /\ UNCHANGED <<history_arg, PureFrame>>

PureNext ==
    \/ \E k \in Invokers : PureEnter(k)
    \/ \E k \in Invokers : PureThreshold(k)
    \/ \E k \in Invokers : PureStreak(k)
    \/ \E k \in Invokers : PureTrend(k)
    \/ \E k \in Invokers : PureReturn(k)

SpecPure == PureInit /\ [][PureNext]_vars

----------------------------------------------------------------------------
\* The shop (SpecShop): purchase_item calls on the same tables, one step per
\* SQL statement outside the transaction and one step for the transaction

Buyers == {"a", "b"}

\* the catalog: two active items and one that was withdrawn
Catalog ==
    [hat |-> [cost |-> 20, is_active |-> TRUE],
     cape |-> [cost |-> 30, is_active |-> TRUE],
     retired |-> [cost |-> 10, is_active |-> FALSE]]

\* item ids a request can carry: the catalog and an id that is in no row
ItemIds == DOMAIN Catalog \cup {"unknown"}

\* student ids a request can carry: the student and an id that is in no row
BuyerStudents == StudentIds \cup {"nobody"}

\* balances a student can have collected from completed sessions
ShopPoints == {0, 24, 48}

NoItem == [cost |-> 0, is_active |-> FALSE]

Purchase(student_id, item_id) ==
    [pc |-> "select_item", student_id |-> student_id, item_id |-> item_id,
     item |-> NoItem, total_points |-> 0, error |-> ""]

ShopInit ==
    /\ \E points \in ShopPoints :
           students = [id \in StudentIds |-> [NewStudent(14) EXCEPT !.total_points = points]]
    /\ sessions = <<>>
    /\ clock = 0
    /\ today = 1
    /\ response = 0
    /\ EngineIdle
    /\ AdvisorIdle
    /\ ConcIdle
    /\ PureIdle
    /\ AdventureIdle
    /\ shop_items = Catalog
    /\ user_purchases \in
           {{}, {[student_id |-> "s1", item_id |-> "hat", points_spent |-> 20]}}
    /\ points_ledger = <<>>
    /\ \E sa, sb \in BuyerStudents, ia, ib \in ItemIds :
           buyers = [k \in Buyers |->
                        IF k = "a" THEN Purchase(sa, ia) ELSE Purchase(sb, ib)]

ShopFrame == <<engine_vars, advisor_vars, conc_vars, pure_vars, adventure_vars,
               sessions, clock, today, response, shop_items>>

Raise(k, message) == buyers' = [buyers EXCEPT ![k].pc = "raised", ![k].error = message]

Owned(student_id, item_id) ==
    \E row \in user_purchases : row.student_id = student_id /\ row.item_id = item_id

\* SELECT * FROM shop_items WHERE id = $1 AND is_active = TRUE
SelectItem(k) ==
    /\ buyers[k].pc = "select_item"
    /\ LET id == buyers[k].item_id
       IN  IF id \in DOMAIN shop_items /\ shop_items[id].is_active
           THEN buyers' = [buyers EXCEPT ![k].pc = "select_student",
                                         ![k].item = shop_items[id]]
           ELSE Raise(k, "Item not found")
    /\ UNCHANGED <<students, user_purchases, points_ledger, ShopFrame>>

\* SELECT total_points FROM students WHERE id = $1, and the comparison of the
\* value read with the cost
SelectStudent(k) ==
    /\ buyers[k].pc = "select_student"
    /\ LET id == buyers[k].student_id
       IN  IF id \notin DOMAIN students
           THEN Raise(k, "Student not found")
           ELSE IF students[id].total_points < buyers[k].item.cost
           THEN buyers' = [buyers EXCEPT ![k].pc = "raised",
                                         ![k].error = "Insufficient points",
                                         ![k].total_points = students[id].total_points]
           ELSE buyers' = [buyers EXCEPT ![k].pc = "select_existing",
                                         ![k].total_points = students[id].total_points]
    /\ UNCHANGED <<students, user_purchases, points_ledger, ShopFrame>>

\* SELECT id FROM user_purchases WHERE student_id = $1 AND item_id = $2
SelectExisting(k) ==
    /\ buyers[k].pc = "select_existing"
    /\ IF Owned(buyers[k].student_id, buyers[k].item_id)
       THEN Raise(k, "Item already owned")
       ELSE buyers' = [buyers EXCEPT ![k].pc = "transaction"]
    /\ UNCHANGED <<students, user_purchases, points_ledger, ShopFrame>>

\* async with conn.transaction(): the UPDATE of the balance, the INSERT into
\* user_purchases and the INSERT into points_ledger; idx_purchases_unique
\* rejects a second row of the same student and item, which rolls all of
\* it back
Transaction(k) ==
    /\ buyers[k].pc = "transaction"
    /\ LET id == buyers[k].student_id
           item_id == buyers[k].item_id
           cost == buyers[k].item.cost
       IN  IF Owned(id, item_id)
           THEN /\ Raise(k, "UniqueViolationError")
                /\ UNCHANGED <<students, user_purchases, points_ledger>>
           ELSE /\ students' = [students EXCEPT ![id].total_points = @ - cost]
                /\ user_purchases' = user_purchases \cup
                       {[student_id |-> id, item_id |-> item_id, points_spent |-> cost]}
                /\ points_ledger' = Append(points_ledger,
                       [student_id |-> id, amount |-> 0 - cost,
                        reason |-> "shop_purchase", item_id |-> item_id])
                /\ buyers' = [buyers EXCEPT ![k].pc = "returned"]
    /\ UNCHANGED ShopFrame

ShopNext ==
    \/ \E k \in Buyers : SelectItem(k)
    \/ \E k \in Buyers : SelectStudent(k)
    \/ \E k \in Buyers : SelectExisting(k)
    \/ \E k \in Buyers : Transaction(k)

SpecShop == ShopInit /\ [][ShopNext]_vars

----------------------------------------------------------------------------
\* Adventure maps (SpecAdventure): the requests of routers/adventures.py, one
\* after the other

\* the adventure maps ever created
MaxAdventures == 4

\* the values a request can give the status column: it is any string
AdventureStatuses == {"active", "archived"}

ActiveMaps(student_id) ==
    {id \in DOMAIN adventure_maps :
        adventure_maps[id].student_id = student_id /\ adventure_maps[id].status = "active"}

AdventureInit ==
    /\ students \in {EmptyDict, [id \in StudentIds |-> NewStudent(14)]}
    /\ sessions = <<>>
    /\ clock = 0
    /\ today = 1
    /\ response = 0
    /\ EngineIdle
    /\ AdvisorIdle
    /\ ConcIdle
    /\ PureIdle
    /\ ShopIdle
    /\ AdventureIdle

AdventureFrame == <<engine_vars, advisor_vars, conc_vars, pure_vars, shop_vars,
                    students, sessions, clock, today>>

\* POST /adventures: every active map of the student is archived, then the
\* new map is inserted as active
create_adventure(student_id) ==
    /\ next_adventure < MaxAdventures
    /\ IF ~get_student(student_id)
       THEN /\ response' = 404
            /\ UNCHANGED adventure_vars
       ELSE LET archived == [id \in DOMAIN adventure_maps |->
                                IF id \in ActiveMaps(student_id)
                                THEN [adventure_maps[id] EXCEPT !.status = "archived"]
                                ELSE adventure_maps[id]]
            IN  /\ next_adventure' = next_adventure + 1
                /\ adventure_maps' = Put(archived, next_adventure + 1,
                                         [student_id |-> student_id, status |-> "active"])
                /\ response' = 200
    /\ UNCHANGED AdventureFrame

\* PUT /adventures/{adventure_id}: the fields given are written, the status
\* among them; "None" is a request that leaves the status out
update_adventure(adventure_id, status) ==
    /\ IF adventure_id \notin DOMAIN adventure_maps
       THEN /\ response' = 404
            /\ UNCHANGED adventure_maps
       ELSE /\ adventure_maps' =
                   IF status = "None" THEN adventure_maps
                   ELSE [adventure_maps EXCEPT ![adventure_id].status = status]
            /\ response' = 200
    /\ UNCHANGED <<next_adventure, AdventureFrame>>

\* DELETE /adventures/{adventure_id}
delete_adventure(adventure_id) ==
    /\ IF adventure_id \notin DOMAIN adventure_maps
       THEN /\ response' = 404
            /\ UNCHANGED adventure_maps
       ELSE /\ adventure_maps' = [id \in DOMAIN adventure_maps \ {adventure_id} |->
                                     adventure_maps[id]]
            /\ response' = 200
    /\ UNCHANGED <<next_adventure, AdventureFrame>>

AdventureNext ==
    \/ \E id \in StudentIds \cup {"nobody"} : create_adventure(id)
    \/ \E id \in 1..MaxAdventures, status \in AdventureStatuses \cup {"None"} :
           update_adventure(id, status)
    \/ \E id \in 1..MaxAdventures : delete_adventure(id)

SpecAdventure == AdventureInit /\ [][AdventureNext]_vars

----------------------------------------------------------------------------
\* Streaks over several days (SpecStreak): update_streak calls, one after the
\* other, while the days pass

StreakInit ==
    /\ students = [id \in StudentIds |-> NewStudent(14)]
    /\ sessions = <<>>
    /\ clock = 0
    /\ today = 1
    /\ response = 0
    /\ EngineIdle
    /\ AuxIdle

\* await update_streak(student_id): a student that is not found changes nothing
StreakCall(student_id) ==
    /\ IF ~get_student(student_id)
       THEN UNCHANGED students
       ELSE students' = [students EXCEPT ![student_id] = update_streak(@, Calendar[today])]
    /\ UNCHANGED <<sessions, clock, today, response, engine_vars, aux_vars>>

\* midnight: date.today() is the next day
NextDay ==
    /\ today < MaxDays
    /\ today' = today + 1
    /\ UNCHANGED <<students, sessions, clock, response, engine_vars, aux_vars>>

StreakNext ==
    \/ \E id \in StudentIds \cup {UnknownStudent} : StreakCall(id)
    \/ NextDay

SpecStreak == StreakInit /\ [][StreakNext]_vars

----------------------------------------------------------------------------
\* Properties of calculate_difficulty_level (SpecEngine)

Returned == pc = "done"

\* the computed weighted accuracy and trend of the call, and the delta after
\* the threshold and streak steps
CallW == calculate_weighted_accuracy(recent_accuracies, fp.w)
CallTrend == analyze_performance_trend(recent_accuracies, fp.d)
CallDelta3 == StreakDelta(recent_accuracies, ThresholdDelta(recent_accuracies, fp))
CallDelta4 == TrendDelta(recent_accuracies, CallDelta3, fp)

StrugglingStreak ==
    Len(recent_accuracies) >= 3 /\ AllBelow(LastThree(recent_accuracies), 5000)
ExcellentStreak ==
    Len(recent_accuracies) >= 3 /\ AllAbove(LastThree(recent_accuracies), 9000)

\* C1: for every age, severity, current level and history the returned level
\* is an integer in 1..10.
ThmC1 == Returned => new_level \in 1..10

WitC1 ==
    /\ Returned
    /\ current_level = 10
    /\ recent_accuracies = <<9500, 9500, 9500, 9500, 9500>>
    /\ new_level = 10

\* no comparison of the call is within rounding of a threshold
Unrounded == ~WTie(recent_accuracies) /\ ~DTie(recent_accuracies)

\* C2 as stated: for every non-empty history the trend step never reverses the
\* direction chosen by the threshold and streak steps, and changes a delta
\* only by forcing a decrease or by turning exactly 0 into +1 (stated for the
\* calls in which rounding plays no part).
CexC2 ==
    (Returned /\ recent_accuracies # <<>> /\ Unrounded) =>
        /\ CallDelta3 > 0 => new_level >= current_level
        /\ CallDelta3 < 0 => new_level <= current_level
        /\ CallDelta4 # CallDelta3 =>
               (CallDelta4 < CallDelta3 \/ (CallDelta3 = 0 /\ CallDelta4 = 1))

\* C2 amended: a negative delta is never turned into an increase; a positive
\* delta is never turned into a decrease when the history has at most 8
\* samples; with 9 or more samples the only reversal is a streak delta of +2
\* replaced by -1 under a declining trend with weighted accuracy < 0.70.  The
\* trend step changes a delta only by forcing a decrease or by turning
\* exactly 0 into +1.
ThmC2 ==
    (Returned /\ recent_accuracies # <<>>) =>
        /\ CallDelta3 < 0 => new_level <= current_level
        /\ (CallDelta3 > 0 /\ Len(recent_accuracies) <= 8) => new_level >= current_level
        /\ (CallDelta3 > 0 /\ new_level < current_level) =>
               /\ Len(recent_accuracies) >= 9
               /\ CallDelta3 = 2 /\ CallDelta4 = -1
               /\ CallTrend = "declining" /\ Below(CallW, 7000)
        /\ CallDelta4 # CallDelta3 =>
               (CallDelta4 < CallDelta3 \/ (CallDelta3 = 0 /\ CallDelta4 = 1))

\* a declining trend meets a positive delta and leaves it
WitC2 ==
    /\ Returned
    /\ Len(recent_accuracies) \in 5..8
    /\ Unrounded
    /\ CallTrend = "declining"
    /\ CallDelta3 > 0
    /\ new_level > current_level

\* C3: when the last three samples are all < 0.50 the returned level is
\* max(1, current_level - 2).
ThmC3 == (Returned /\ StrugglingStreak) => new_level = Max(1, current_level - 2)

WitC3 ==
    /\ Returned
    /\ recent_accuracies = <<9500, 9500, 3000, 3000, 3000>>
    /\ current_level = 5
    /\ new_level = 3

\* C4: for a history of length 1 or 2 the returned level is
\* max(1, current_level - 1) when the weighted accuracy is < 0.60 and
\* current_level otherwise.
ThmC4 ==
    (Returned /\ Len(recent_accuracies) \in {1, 2}) =>
        new_level = IF Below(CallW, MAINTAIN_MIN) THEN Max(1, current_level - 1)
                    ELSE current_level

WitC4 ==
    /\ Returned
    /\ recent_accuracies = <<9500, 9500>>
    /\ current_level = 5
    /\ new_level = 5

\* C5: with at least 5 samples, a declining trend and a weighted accuracy
\* < 0.70 the returned level is at most max(1, current_level - 1), and a
\* delta of -2 from the streak step stays -2.
ThmC5 ==
    (/\ Returned
     /\ Len(recent_accuracies) >= 5
     /\ CallTrend = "declining"
     /\ Below(CallW, 7000)) =>
        /\ new_level <= Max(1, current_level - 1)
        /\ CallDelta3 = -2 => new_level = Max(1, current_level - 2)

\* the threshold and streak steps leave 0 and the trend step lowers the level
WitC5 ==
    /\ Returned
    /\ Len(recent_accuracies) >= 5
    /\ Unrounded
    /\ CallTrend = "declining"
    /\ Below(CallW, 7000)
    /\ CallDelta3 = 0
    /\ new_level = current_level - 1

ColdTable ==
    LET base == 1 + Cardinality({t \in {5, 7, 9, 11, 13} : age > t})
        twice == 2 * base + (3 - deficit_severity)
        level == twice \div 2
    IN  IF level < 1 THEN 1 ELSE IF level > 10 THEN 10 ELSE level

ThmC7 ==
    (Returned /\ recent_accuracies = <<>>) =>
        /\ new_level = ColdTable
        /\ (age = 5 /\ deficit_severity = 3) => new_level = 1
        /\ (age = 9 /\ deficit_severity = 1) => new_level = 4
        /\ (age = 14 /\ deficit_severity = 5) => new_level = 5

WitC7 ==
    /\ Returned
    /\ recent_accuracies = <<>>
    /\ age = 9 /\ deficit_severity = 1
    /\ current_level = 10
    /\ new_level = 4

\* C19: for a history of 3 or 4 samples whose last three are neither all
\* < 0.50 nor all > 0.90 the returned level is min(10, current_level + 1)
\* when the weighted accuracy is > 0.85, max(1, current_level - 1) when it is
\* < 0.60 and current_level otherwise.
ThmC19 ==
    (/\ Returned
     /\ Len(recent_accuracies) \in {3, 4}
     /\ ~StrugglingStreak
     /\ ~ExcellentStreak) =>
        new_level = (IF Above(CallW, 8500) THEN Min(10, current_level + 1)
                     ELSE IF Below(CallW, 6000) THEN Max(1, current_level - 1)
                     ELSE current_level)

\* C19 happens: four samples of weighted accuracy 0.875, the last three not
\* all above 0.90, raise level 5 to 6
WitC19 ==
    /\ Returned
    /\ recent_accuracies = <<9500, 9500, 7000, 9500>>
    /\ current_level = 5
    /\ new_level = 6

\* C20: for a history of 3, 4 or 5 samples whose last three are all > 0.90
\* the returned level is min(10, current_level + 2), whatever the older
\* samples are.
ThmC20 ==
    (/\ Returned
     /\ Len(recent_accuracies) \in {3, 4, 5}
     /\ \A i \in (Len(recent_accuracies) - 2)..Len(recent_accuracies) :
            recent_accuracies[i] > 9000) =>
        new_level = Min(10, current_level + 2)

\* C20 happens: two older samples of 0.0 before three of 1.0 (weighted
\* accuracy 0.80), and level 9 goes to the cap
WitC20 ==
    /\ Returned
    /\ recent_accuracies = <<0, 0, 10000, 10000, 10000>>
    /\ current_level = 9
    /\ new_level = 10

\* C21: for a history of at least 5 samples with an improving trend and no
\* streak in the last three samples, the returned level is
\* min(10, current_level + 1) when the weighted accuracy w has
\* 0.75 < w <= 0.85, and current_level when 0.60 <= w <= 0.75.
ThmC21 ==
    (/\ Returned
     /\ Len(recent_accuracies) >= 5
     /\ CallTrend = "improving"
     /\ ~StrugglingStreak
     /\ ~ExcellentStreak
     /\ ~Below(CallW, 6000)
     /\ ~Above(CallW, 8500)) =>
        new_level = (IF Above(CallW, 7500) THEN Min(10, current_level + 1)
                     ELSE current_level)

\* C21 happens: two samples of 0.30 before three of 0.90 improve, weigh 0.78
\* and have no streak (0.90 is not above 0.90): level 5 is nudged to 6
WitC21 ==
    /\ Returned
    /\ recent_accuracies = <<3000, 3000, 9000, 9000, 9000>>
    /\ CallTrend = "improving"
    /\ CallDelta3 = 0
    /\ current_level = 5
    /\ new_level = 6

\* the smallest and the largest sample of a non-empty history
MinSample(h) == CHOOSE x \in Range(h) : \A y \in Range(h) : x <= y
MaxSample(h) == CHOOSE x \in Range(h) : \A y \in Range(h) : x >= y

\* C22: for every non-empty history the weighted accuracy is defined, is the
\* sum of (i+1)*a[i] over the sum of (i+1), and the value the code computes
\* lies between the smallest and the largest sample.
CexC22 ==
    (Returned /\ recent_accuracies # <<>>) =>
        /\ CallW # None
        /\ CallW.num = SumSeq([i \in 1..Len(recent_accuracies) |-> i * recent_accuracies[i]])
        /\ CallW.den = SumSeq([i \in 1..Len(recent_accuracies) |-> i])
        /\ ~Below(CallW, MinSample(recent_accuracies))
        /\ ~Above(CallW, MaxSample(recent_accuracies))

\* the trend of the exact means: a difference of exactly 0.10 or -0.10 is stable
ExactTrend(h) ==
    LET mid == Len(h) \div 2
        first_half == SubSeq(h, 1, mid)
        second_half == SubSeq(h, mid + 1, Len(h))
        diff == SumSeq(second_half) * mid - SumSeq(first_half) * (Len(h) - mid)
        tenth == 1000 * mid * (Len(h) - mid)
    IN  IF Len(h) < 5 THEN "insufficient_data"
        ELSE IF diff > tenth THEN "improving"
        ELSE IF diff < -tenth THEN "declining"
        ELSE "stable"

\* C23: the trend is insufficient_data below 5 samples; from 5 samples on it
\* is improving when the mean of the newer N - N div 2 samples exceeds the
\* mean of the N div 2 older ones by more than 0.10, declining when it is
\* lower by more than 0.10, and stable otherwise, also at exactly 0.10.
CexC23 == Returned => CallTrend = ExactTrend(recent_accuracies)

----------------------------------------------------------------------------
\* Claims about the session endpoints, checked under Spec

\* the stored level of an area, 0 when the student or the area is absent
StoredLevel(m, student_id, deficit_area) ==
    IF student_id \in DOMAIN m /\ deficit_area \in DOMAIN m[student_id].current_levels
    THEN m[student_id].current_levels[deficit_area]
    ELSE 0

\* the step completes the in-progress session sid
CompletesSession(sid) ==
    /\ sid \in DOMAIN sessions
    /\ sessions[sid].status = "in_progress"
    /\ sessions'[sid].status = "completed"

\* the step inserts a session
StartStep == Len(sessions') = Len(sessions) + 1

\* the step records an answer
SubmitStep ==
    /\ Len(sessions') = Len(sessions)
    /\ \E sid \in DOMAIN sessions : sessions'[sid].results # sessions[sid].results

\* the step stores an assessment: the levels are the seeded ones
AssessmentStep ==
    /\ sessions' = sessions
    /\ \E id \in DOMAIN students :
           LET st == students'[id]
           IN  /\ st.assessment.present
               /\ st.current_levels =
                      [area \in DOMAIN st.assessment.deficits |->
                           Max(1, 6 - st.assessment.deficits[area])]

LevelsSame ==
    \A id \in StudentIds, area \in Areas :
        StoredLevel(students', id, area) = StoredLevel(students, id, area)

\* C8: completing an in-progress session of accuracy a = correct_count /
\* total_items (total_items > 0) sets the stored level of the session's area to min(10, old + 1)
\* when a > 0.85, to max(1, old - 1) when a < 0.50 and leaves it as it was
\* otherwise, old being the stored level or 1 when there is none; no other
\* area's level changes, and the session's difficulty_level plays no part.
ThmC8 ==
    [][\A sid \in 1..MaxSessions :
           (CompletesSession(sid) /\ sessions[sid].total_items > 0) =>
               LET session == sessions'[sid]
                   id == session.student_id
                   area == session.deficit_area
                   c == session.correct_count
                   t == session.total_items
                   stored == StoredLevel(students, id, area)
                   old == IF stored = 0 THEN 1 ELSE stored
               IN  /\ StoredLevel(students', id, area) =
                          IF 100 * c > 85 * t THEN Min(10, old + 1)
                          ELSE IF 100 * c < 50 * t THEN Max(1, old - 1)
                          ELSE stored
                   /\ \A other \in Areas \ {area} :
                          StoredLevel(students', id, other) = StoredLevel(students, id, other)
      ]_vars

\* C8 happens: a session of accuracy 1.0 whose difficulty_level was 6 has
\* raised an unstored level to 2, and one of accuracy 0.5 then left it there
WitC8 ==
    /\ Len(sessions) = 2
    /\ \A i \in 1..2 : /\ sessions[i].status = "completed"
                       /\ sessions[i].deficit_area = rapid_naming
    /\ sessions[1].accuracy = Scale
    /\ sessions[1].difficulty_level = 6
    /\ 2 * sessions[2].accuracy = Scale
    /\ StoredLevel(students, "s1", rapid_naming) = 2
    /\ StoredLevel(students, "s1", phonological_awareness) = 0

\* C9: start_session and submit_item leave every stored level (and the whole
\* student row) as it was, the engine's level going only into the new
\* session; a stored level changes only in a step of complete_session or of
\* save_assessment.
ThmC9 ==
    [][/\ (StartStep \/ SubmitStep) => (LevelsSame /\ students' = students)
       /\ StartStep => \A i \in DOMAIN sessions : sessions'[i] = sessions[i]
       /\ ~LevelsSame => (AssessmentStep \/ \E sid \in 1..MaxSessions : CompletesSession(sid))
      ]_vars

\* C9 happens: a session was started at the engine's level 6 and answered
\* while the area has no stored level at all
WitC9 ==
    \E sid \in DOMAIN sessions :
        /\ sessions[sid].status = "in_progress"
        /\ sessions[sid].results # <<>>
        /\ sessions[sid].difficulty_level = 6
        /\ StoredLevel(students, sessions[sid].student_id, sessions[sid].deficit_area) = 0

\* C10: the session start_session inserts carries the engine's level for the
\* student's age, the assessed severity of the game's area (3 without an
\* assessment or when the area is not assessed), the area's stored level (1
\* when absent) and the student's accuracy history in the area; a start for
\* an unknown student or game answers 404 and inserts nothing.
ThmC10 ==
    [][/\ StartStep =>
              LET session == sessions'[Len(sessions')]
                  id == session.student_id
                  area == GAMES[session.game_id].deficit_area
                  st == students[id]
                  severity == IF st.assessment.present /\ area \in DOMAIN st.assessment.deficits
                              THEN st.assessment.deficits[area]
                              ELSE 3
                  level == IF area \in DOMAIN st.current_levels
                           THEN st.current_levels[area]
                           ELSE 1
                  history == get_recent_accuracy_trend(id, area, 5)
              IN  /\ id \in DOMAIN students
                  /\ session.game_id \in DOMAIN GAMES
                  /\ session.deficit_area = area
                  /\ \E rnd \in FpChoices(history) :
                         session.difficulty_level =
                             calculate_difficulty_level(st.age, severity, level, history, rnd)
       /\ \A id \in StudentIds \cup {UnknownStudent}, g \in DOMAIN GAMES \cup {UnknownGame},
             n \in ItemCounts :
              (/\ id \notin DOMAIN students \/ g \notin DOMAIN GAMES
               /\ start_session(id, g, n, [w |-> 0, d |-> 0]))
                  => (response' = 404 /\ sessions' = sessions)
      ]_vars

\* C10 happens: an assessed student of 14 (severity 1, seeded level 5) got a
\* cold-start session at 7 and, after completing it with accuracy 1.0, a second
\* one at the stored level 6 from the one-session history
WitC10 ==
    /\ Len(sessions) = 2
    /\ students["s1"].assessment.present
    /\ students["s1"].age = 14
    /\ \A i \in 1..2 : sessions[i].deficit_area = phonological_awareness
    /\ sessions[1].status = "completed"
    /\ sessions[1].accuracy = Scale
    /\ sessions[1].difficulty_level = 7
    /\ sessions[2].difficulty_level = 6
    /\ StoredLevel(students, "s1", phonological_awareness) = 6

\* C14: get_recent_accuracy_trend(student, area, N) holds the accuracies of
\* the min(N, k) most recently completed sessions of the student and area (k
\* of them exist), oldest first, and of no other session.
ThmC14 ==
    \A id \in StudentIds \cup {UnknownStudent}, area \in Areas, N \in 1..5 :
        LET C == {i \in DOMAIN sessions :
                     /\ sessions[i].student_id = id
                     /\ sessions[i].deficit_area = area
                     /\ sessions[i].status = "completed"}
            k == Cardinality(C)
            recent == get_recent_accuracy_trend(id, area, N)
            Later(i) == Cardinality({j \in C : sessions[j].completed_at >
                                                 sessions[i].completed_at})
        IN  /\ Len(recent) = (IF N < k THEN N ELSE k)
            /\ \A p \in 1..Len(recent) :
                   \E i \in C : /\ Later(i) = Len(recent) - p
                                /\ recent[p] = sessions[i].accuracy

\* C14 happens: of two completed sessions of one area (accuracies 1.0, then
\* 0.0) a limit of 1 keeps the later one and the limit 5 of start_session
\* keeps both, oldest first
WitC14 ==
    /\ Len(sessions) = 2
    /\ \A i \in 1..2 : /\ sessions[i].status = "completed"
                       /\ sessions[i].deficit_area = rapid_naming
    /\ sessions[1].completed_at < sessions[2].completed_at
    /\ sessions[1].accuracy = Scale
    /\ sessions[2].accuracy = 0
    /\ get_recent_accuracy_trend("s1", rapid_naming, 1) = <<0>>
    /\ get_recent_accuracy_trend("s1", rapid_naming, 5) = <<Scale, 0>>
    /\ get_recent_accuracy_trend("s1", phonological_awareness, 5) = <<>>

\* C11: every completed session has correct_count <= total_items and a
\* recorded accuracy in [0, 1], whatever submit_item calls came before its
\* completion, so every sample of get_recent_accuracy_trend is in [0, 1].
CexC11 ==
    /\ \A i \in DOMAIN sessions :
           sessions[i].status = "completed" =>
               /\ sessions[i].correct_count <= sessions[i].total_items
               /\ sessions[i].accuracy \in 0..Scale
    /\ \A id \in StudentIds, area \in Areas :
           LET recent == get_recent_accuracy_trend(id, area, 5)
           IN  \A j \in 1..Len(recent) : recent[j] \in 0..Scale

\* session i is the first session its student completed
FirstCompleted(i) ==
    /\ sessions[i].status = "completed"
    /\ \A j \in CompletedSessions(sessions[i].student_id) :
           sessions[j].completed_at >= sessions[i].completed_at

\* C26: once complete_session has returned for the first session a student
\* completes, the student's badge set contains first_steps and the
\* badges_earned of that session lists it: the progress badge is awarded by
\* the call that brings the count of completed sessions to its threshold.
CexC26 ==
    \A i \in DOMAIN sessions :
        (FirstCompleted(i) /\ get_student(sessions[i].student_id)) =>
            /\ "first_steps" \in students[sessions[i].student_id].badges
            /\ "first_steps" \in Range(sessions[i].badges_earned)

\* the badges the completed sessions of a student reported as newly earned,
\* one entry per report
RECURSIVE Reported(_, _)
Reported(student_id, n) ==
    IF n = 0 THEN <<>>
    ELSE Reported(student_id, n - 1) \o
         (IF sessions[n].student_id = student_id /\ sessions[n].status = "completed"
          THEN sessions[n].badges_earned ELSE <<>>)

NoRepeats(s) == \A i, j \in 1..Len(s) : s[i] = s[j] => i = j

\* C30: over any sequence of check_and_award_badges calls that do not overlap
\* the stored badge set of a student only grows, the list a call returns
\* contains no badge the student already held, and no badge is reported as
\* newly earned twice for one student
ThmC30 ==
    /\ [](\A id \in DOMAIN students : NoRepeats(Reported(id, Len(sessions))))
    /\ [][/\ \A id \in DOMAIN students : students[id].badges \subseteq students'[id].badges
          /\ \A i \in DOMAIN sessions :
                 (CompletesSession(i) /\ get_student(sessions[i].student_id)) =>
                     /\ Range(sessions'[i].badges_earned) \cap
                            students[sessions[i].student_id].badges = {}
                     /\ students'[sessions[i].student_id].badges =
                            students[sessions[i].student_id].badges \cup
                                Range(sessions'[i].badges_earned)]_vars

\* two perfect sessions completed one after the other: the first call reports
\* perfect_score, the second holds it already and reports first_steps only
WitC30 ==
    /\ Len(sessions) = 2
    /\ \A i \in 1..2 : sessions[i].status = "completed" /\ sessions[i].student_id = "s1"
    /\ sessions[1].completed_at < sessions[2].completed_at
    /\ sessions[1].badges_earned = <<"perfect_score">>
    /\ sessions[2].accuracy = Scale
    /\ sessions[2].badges_earned = <<"first_steps">>
    /\ students["s1"].badges = {"first_steps", "perfect_score"}

----------------------------------------------------------------------------
\* Claims about concurrent completions, checked under SpecConc

\* the request of caller k has answered 200
Completed(k) == calls[k].pc = "done" /\ calls[k].status_code = 200

\* the level map after the adjustment of caller k's session
AdjustedBy(k, current_levels) ==
    AdjustLevels(current_levels, calls[k].session.deficit_area,
                 CallCorrect(calls[k]), calls[k].session.total_items)

\* C12: every value stored in every student's current_levels is an integer
\* in 1..10, and so is every value a request is about to write, whatever
\* assessments are imported and sessions completed, in whatever interleaving.
ThmC12 ==
    /\ \A id \in DOMAIN students :
           \A area \in DOMAIN students[id].current_levels :
               students[id].current_levels[area] \in 1..10
    /\ \A k \in Callers :
           calls[k].pc = "update_student" =>
               \A area \in DOMAIN calls[k].update.current_levels :
                   calls[k].update.current_levels[area] \in 1..10

\* C12 happens: one request completed a perfect session from the stored
\* level 10 and wrote 10; an assessment of severity 5 then seeded level 1,
\* and the other request completed a session without a correct answer from
\* that level 1 and left 1
WitC12 ==
    \E k \in Callers, j \in Callers :
        LET area == phonological_awareness
        IN  /\ Completed(k)
            /\ Completed(j)
            /\ calls[k].session.deficit_area = area
            /\ calls[j].session.deficit_area = area
            /\ Get(calls[k].student.current_levels, area, 0) = 10
            /\ CallPerfect(calls[k])
            /\ Get(AdjustedBy(k, calls[k].student.current_levels), area, 0) = 10
            /\ calls[j].student.assessment.present
            /\ Get(calls[j].student.current_levels, area, 0) = 1
            /\ CallCorrect(calls[j]) = 0
            /\ StoredLevel(students, "s1", area) = 1

\* C13: the read-modify-write of the stored level is serialized: when the two
\* requests have completed two sessions of one student and one area, the
\* stored level is the one that results from applying the two adjustments
\* one after the other, in one of the two orders, to the level the first one
\* read.
CexC13 ==
    ( /\ \A k \in Callers : Completed(k)
      /\ calls["a"].session_id # calls["b"].session_id
      /\ calls["a"].session.deficit_area = calls["b"].session.deficit_area
      /\ ~students["s1"].assessment.present )
    => \E first \in Callers, second \in Callers :
           /\ first # second
           /\ LET area == calls[first].session.deficit_area
                  serial == AdjustedBy(second, AdjustedBy(first, calls[first].student.current_levels))
              IN  StoredLevel(students, "s1", area) = Get(serial, area, 0)

\* the points of the completed sessions of a student
RECURSIVE PointsEarned(_, _)
PointsEarned(student_id, i) ==
    IF i > Len(sessions) THEN 0
    ELSE (IF sessions[i].student_id = student_id /\ sessions[i].status = "completed"
          THEN sessions[i].points_earned ELSE 0) + PointsEarned(student_id, i + 1)

\* C25: a session is rewarded at most once, also when two complete_session
\* calls for it run concurrently: once every call has returned, the student's
\* total_points and xp hold the points of each completed session at most
\* once and the level of the session's area has moved by at most one
\* adjustment; a call answered 400 has read and written nothing further.
CexC25 ==
    (\A k \in Callers : calls[k].pc = "done") =>
        /\ students["s1"].total_points <= PointsEarned("s1", 1)
        /\ students["s1"].xp <= PointsEarned("s1", 1)
        /\ ( /\ \A k \in Callers : Completed(k)
              /\ calls["a"].session_id = calls["b"].session_id
              /\ ~students["s1"].assessment.present )
           => \A k \in Callers :
                  LET area == calls[k].session.deficit_area
                      read == calls[k].student.current_levels
                  IN  Get(students["s1"].current_levels, area, 1) \in
                          {Get(read, area, 1), Get(AdjustedBy(k, read), area, 1)}
        /\ \A k \in Callers :
               calls[k].status_code = 400 =>
                   calls[k].session = EmptyDict /\ calls[k].student = EmptyDict

----------------------------------------------------------------------------
\* Claims about sessions played one after the other, checked under SpecItems

\* the session the step has inserted
Started == sessions'[Len(sessions')]

\* the completed sessions recorded for the student and area of the inserted
\* session, and the level stored for them (1 when none is stored), both
\* before the step
RecordedBefore ==
    Cardinality(CompletedInArea(Started.student_id, Started.deficit_area))
StoredBefore ==
    Get(students[Started.student_id].current_levels, Started.deficit_area, 1)

\* C24 as stated: for a student and area with 0, 1 or 2 completed sessions
\* start_session never creates a session whose difficulty_level is greater
\* than the stored level (1 when none is stored).
CexC24 ==
    [][(StartStep /\ RecordedBefore < 3) => Started.difficulty_level <= StoredBefore]_vars

\* C24 amended: with 1 or 2 completed sessions the created difficulty_level
\* is never greater than the stored level (1 when none is stored); with no
\* completed session it is the cold-start level of the student's age and the
\* area's severity, whatever level is stored.
ThmC24 ==
    [][StartStep =>
          /\ RecordedBefore \in {1, 2} => Started.difficulty_level <= StoredBefore
          /\ RecordedBefore = 0 =>
                 Started.difficulty_level =
                     ColdStartLevel(students[Started.student_id].age,
                                    SeverityOf(students[Started.student_id],
                                               Started.deficit_area))]_vars

\* C24 happens: after two perfect sessions (stored level 3, weighted
\* accuracy 1.0) the third session is created at level 3, and the first one
\* was created at the cold-start level 6 with no level stored
WitC24 ==
    /\ Len(sessions) = 3
    /\ sessions[1].difficulty_level = 6
    /\ sessions[1].status = "completed" /\ sessions[1].accuracy = Scale
    /\ sessions[2].status = "completed" /\ sessions[2].accuracy = Scale
    /\ sessions[3].status = "in_progress"
    /\ sessions[3].difficulty_level = 3
    /\ StoredLevel(students, "s1", phonological_awareness) = 3

----------------------------------------------------------------------------
\* Claims about interleaved invocations of the engine, checked under SpecPure

\* what invocation k returns when it runs alone on the list it was passed
OwnResult(k) ==
    calculate_difficulty_level(invocations[k].age, invocations[k].deficit_severity,
                               invocations[k].current_level, history_arg, rounding)

SameArguments(k, j) ==
    /\ invocations[k].age = invocations[j].age
    /\ invocations[k].deficit_severity = invocations[j].deficit_severity
    /\ invocations[k].current_level = invocations[j].current_level

\* every finished invocation returned the value of its own arguments, and
\* two finished invocations with equal arguments returned equal values
ResultsDetermined ==
    /\ \A k \in DOMAIN invocations :
           invocations[k].pc = "done" => invocations[k].result = OwnResult(k)
    /\ \A k \in DOMAIN invocations, j \in DOMAIN invocations :
           (invocations[k].pc = "done" /\ invocations[j].pc = "done" /\ SameArguments(k, j))
               => invocations[k].result = invocations[j].result

\* C18: calculate_difficulty_level is a pure transform: no step of an
\* invocation changes the history list it was passed or any stored student
\* or session, and however the steps of several invocations interleave,
\* each returns the value determined by its own arguments, equal arguments
\* giving equal results.
ThmC18 ==
    /\ []ResultsDetermined
    /\ [][history_arg' = history_arg /\ system_vars' = system_vars]_vars

\* C18 happens: two invocations with equal arguments have run interleaved on
\* one list with an excellence streak and an improving trend; both returned
\* 5 + 2 and the list is as it was passed
WitC18 ==
    /\ history_arg = <<3000, 3000, 9500, 9500, 9500>>
    /\ \A k \in Invokers : /\ invocations[k].pc = "done"
                            /\ invocations[k].current_level = 5
                            /\ invocations[k].result = 7

----------------------------------------------------------------------------
\* Claims about the session parameters and the recommendations, checked
\* under SpecAdvisor

Recommended == advisor.pc = "recommended"

\* the position of an area in the deficits map
InputPos(area) == CHOOSE i \in 1..Len(area_deficits) : area_deficits[i].area = area

ThmC16 ==
    Recommended =>
        /\ Len(recommendations) = Len(area_deficits)
        /\ \A i \in 1..Len(area_deficits) :
               Cardinality({k \in 1..Len(recommendations) :
                               recommendations[k].area = area_deficits[i].area}) = 1
        /\ \A j, k \in 1..Len(recommendations) :
               j < k =>
                   /\ recommendations[j].priority >= recommendations[k].priority
                   /\ recommendations[j].priority = recommendations[k].priority
                          => InputPos(recommendations[j].area) < InputPos(recommendations[k].area)

\* C16 happens: the sort moved the last area to the front and left two areas
\* of equal priority in their input order
WitC16 ==
    /\ Recommended
    /\ Len(recommendations) = 3
    /\ recommendations[1].area = AreaNames[3]
    /\ recommendations[2].area = AreaNames[1]
    /\ recommendations[3].area = AreaNames[2]
    /\ recommendations[2].priority = recommendations[3].priority
    /\ recommendations[1].priority > recommendations[2].priority

\* C17: for a level L in 1..10 the parameters are item_count = clamp(8 + 2L,
\* 10, 30), time_limit_seconds = max(5, 30 - 2L), hints_available =
\* max(0, 5 - L div 2), distractor_count = min(3, 1 + L div 3); against every
\* lower level item_count and distractor_count do not fall and
\* time_limit_seconds and hints_available do not rise.
ThmC17 ==
    advisor.pc = "done" =>
        LET L == difficulty_level
        IN  /\ params.item_count =
                   (IF 8 + 2 * L < 10 THEN 10 ELSE IF 8 + 2 * L > 30 THEN 30 ELSE 8 + 2 * L)
            /\ params.time_limit_seconds = (IF 30 - 2 * L > 5 THEN 30 - 2 * L ELSE 5)
            /\ params.hints_available = (IF 5 - L \div 2 > 0 THEN 5 - L \div 2 ELSE 0)
            /\ params.distractor_count = (IF 1 + L \div 3 < 3 THEN 1 + L \div 3 ELSE 3)
            /\ \A K \in 1..L :
                   LET lower == calculate_session_parameters(K)
                   IN  /\ lower.item_count <= params.item_count
                       /\ lower.distractor_count <= params.distractor_count
                       /\ lower.time_limit_seconds >= params.time_limit_seconds
                       /\ lower.hints_available >= params.hints_available

\* C17 happens: level 10 gives 28 items, 10 seconds, no hints and the capped
\* 3 distractors
WitC17 ==
    /\ advisor.pc = "done"
    /\ difficulty_level = 10
    /\ params = [item_count |-> 28, time_limit_seconds |-> 10,
                 hints_available |-> 0, distractor_count |-> 3]


----------------------------------------------------------------------------
\* Claims about the shop, checked under SpecShop

Raises(k) == buyers[k].pc # "raised" /\ buyers'[k].pc = "raised"

Succeeds(k) == buyers[k].pc # "returned" /\ buyers'[k].pc = "returned"

TablesUnchanged == UNCHANGED <<students, user_purchases, points_ledger>>

AllThreeWrites(k) ==
    LET id == buyers[k].student_id
        cost == buyers[k].item.cost
    IN  /\ students'[id].total_points = students[id].total_points - cost
        /\ Owned(id, buyers[k].item_id)'
        /\ ~Owned(id, buyers[k].item_id)
        /\ Len(points_ledger') = Len(points_ledger) + 1
        /\ points_ledger'[Len(points_ledger')].amount = 0 - cost
        /\ points_ledger'[Len(points_ledger')].student_id = id

\* C27: for every interleaving of purchase_item calls a purchase succeeds only
\* if the balance at the moment of the deduction covers the cost, so
\* total_points is never negative; a call that raises leaves total_points,
\* the purchases and the ledger unchanged; a call that succeeds applies the
\* deduction, the purchase row and the ledger row of -cost
CexC27 ==
    /\ [](\A id \in DOMAIN students : students[id].total_points >= 0)
    /\ [][\A k \in Buyers :
             /\ Raises(k) => TablesUnchanged
             /\ Succeeds(k) =>
                    /\ students[buyers[k].student_id].total_points >= buyers[k].item.cost
                    /\ AllThreeWrites(k)]_vars


----------------------------------------------------------------------------
\* Claims about adventure maps, checked under SpecAdventure

\* C28: after any sequence of create_adventure, update_adventure and
\* delete_adventure requests every student has at most one adventure map
\* with status "active"
CexC28 == \A id \in StudentIds : Cardinality(ActiveMaps(id)) <= 1


----------------------------------------------------------------------------
\* Claims about streaks, checked under SpecStreak

\* day is the calendar day before date.today()
DayBeforeToday(day) == today > 1 /\ Calendar[today - 1] = day

\* C29: update_streak on a student whose last_session_date was written by an
\* earlier update_streak leaves the streaks unchanged when that date is today,
\* adds one to current_streak exactly when that date is the calendar day
\* before today (the first day of a month included), sets current_streak to 1
\* otherwise, and always leaves longest_streak >= current_streak
CexC29 ==
    [][today' = today =>
          \A id \in DOMAIN students :
              LET before == students[id]
                  after == students'[id]
                  last == before.last_session_date
              IN  last.set =>
                      /\ after.longest_streak >= after.current_streak
                      /\ IF last.date = Calendar[today]
                         THEN /\ after.current_streak = before.current_streak
                              /\ after.longest_streak = before.longest_streak
                         ELSE IF DayBeforeToday(last.date)
                         THEN after.current_streak = before.current_streak + 1
                         ELSE after.current_streak = 1]_vars

====
